---- MODULE Spec2Model ----
(***************************************************************************)
(* State-machine model of the HSUS order-status Apps Script back office.   *)
(*                                                                         *)
(* The repository is a set of independent handlers over spreadsheet        *)
(* tables, script properties, time-based triggers and a script lock.  Each *)
(* group of handlers is modelled as its own sub-machine with its own       *)
(* specification; the variables of the other groups stay unchanged:        *)
(*   QueueSpec   New-PO upload queue          (src/unnamed/part_005)        *)
(*   CorrSpec    PO-correction job queue      (src/POEditorgs.js)           *)
(*   PlanSpec    planning upsert              (src/[PAUSE]EditLog_onEdit.js)*)
(*   BolSpec     planning and BOL tables      (src/BolEntryToolgs.js)       *)
(*   SerialSpec  serial assignment            (src/SerialAssignmentToolgs.js)*)
(*   EditSpec    edit audit handlers          (src/unnamed/part_003)        *)
(*   TrySpec     try/catch of the write handlers                            *)
(*   GitSpec     GIT progress editor          (src/onOpenCustomedTool.js)   *)
(*   ViewSpec    planning tool with getPlanningData                         *)
(*   FinishSpec  serial assignment tool with the BOL tool                   *)
(*   ArchiveSpec Dealer PO raw data and archive                             *)
(*   QtySpec     planning tool, quantity check                              *)
(*   CorrRunSpec PO-correction queue, one execution at a time               *)
(*   VoidSpec    Dealer PO raw data and archive, PO numbers as typed        *)
(*   CacheSpec   planning tool and BOL tool with the BOL list cache         *)
(***************************************************************************)
EXTENDS Integers, Sequences, FiniteSets, TLC

(***************************************************************************)
(* Bounds of the model (not program constants).                            *)
(***************************************************************************)
\* number of script executions that can be in flight at once
NumProcs == 2
\* number of upload tasks ever enqueued
MaxTasks == 3

\* number of PO-correction submissions ever made
MaxJobs == 2

\* number of records a history sheet can take
MaxLog == 2
\* number of PO|SKU keys the planning and BOL tools work on
NumKeys == 2

Procs == 1..NumProcs
Tasks == 1..MaxTasks
Jobs == 1..MaxJobs

(***************************************************************************)
(* New-PO upload queue: script property NEW_PO_UPLOAD_QUEUE, the script    *)
(* lock, the project triggers of handler 'processNewPoUploadQueue'.        *)
(***************************************************************************)
VARIABLES
  queueSet,     \* TRUE iff script property NEW_PO_UPLOAD_QUEUE exists
  queueVal,     \* its value (the JSON array, as a sequence of tasks)
  lock,         \* holder of LockService.getScriptLock(), 0 = free
  armed,        \* triggers of the handler that have not fired yet
  fired,        \* one-shot triggers that fired and are still listed
  pc,           \* position of each execution
  lq,           \* local `queue` of each execution
  cur,          \* local `task` of each execution (0 = none)
  wasEmpty,     \* local `wasQueueEmpty` of addTaskToNewPoQueue_
  nextTask,     \* next task to be created by processNewPoUpload
  written,      \* history: tasks written into the property by an enqueue
  shifted,      \* history: tasks a run took with queue.shift()
  moved,        \* history: tasks whose file was moved and renamed
  removed       \* history: tasks a run's write-back/delete left out

qvars == <<queueSet, queueVal, lock, armed, fired, pc, lq, cur, wasEmpty,
           nextTask, written, shifted, moved, removed>>

(***************************************************************************)
(* PO-correction queue: sheet 'PO Processing Queue', the user cache, the   *)
(* triggers of handler '_processPoCorrectionTrigger', and the sheet        *)
(* 'Dealer PO | Raw Data' that _savePoCorrectionsCore rewrites.            *)
(***************************************************************************)
VARIABLES
  corrQueue,    \* data rows of 'PO Processing Queue' (row 1 is the header)
  corrCache,    \* CacheService.getUserCache(): the payloads still cached
  ctArmed,      \* triggers of the handler that have not fired yet
  ctFired,      \* one-shot triggers that fired and are still listed
  poRaw,        \* data rows of 'Dealer PO | Raw Data'
  cpc,          \* position of each execution
  cjob,         \* local payload of a submitting execution
  cexisting,    \* local `existing` of _createProcessTrigger_
  csnap,        \* local `queueData` / `updates` of the processor
  cdone,        \* local `jobsProcessed` of the processor
  nextJob       \* next submission (stands for the cache key's timestamp)

cvars == <<corrQueue, corrCache, ctArmed, ctFired, poRaw, cpc, cjob,
           cexisting, csnap, cdone, nextJob>>

(***************************************************************************)
(* Planning and BOL tables: sheets 'Shipment_Planning_DB' and 'BOL_DB'     *)
(* (row 1 of each is the header row), and the script cache of the BOL tool.*)
(* The timestamp and user columns are not modelled.                        *)
(***************************************************************************)
VARIABLES
  planning,     \* data rows of Shipment_Planning_DB: C key, D date, E, F, G
  bolDb,        \* data rows of BOL_DB: A BOL #, B key, C qty, G status
  bolCache,     \* cache entries pendingBolData / fulfilledBolData
  planSaved,    \* history: raw input of the latest successful save per key
  planLast      \* history: what the latest savePlanningData call did

pvars == <<planning, bolDb, bolCache, planSaved, planLast>>

(***************************************************************************)
(* Serial assignment: sheets 'Serial # | Raw Data' and 'Serial #_DB', and  *)
(* the serial column of 'Order Shipping Mgt. Table'.  The user and         *)
(* timestamp columns are not modelled.                                     *)
(***************************************************************************)
VARIABLES
  helperKey,    \* column H of 'Serial # | Raw Data', per listed serial
  serialDb,     \* data rows of Serial #_DB: A serial, B key, C BOL, D complete
  orderSerials  \* column AB of 'Order Shipping Mgt. Table', per order row

svars == <<helperKey, serialDb, orderSerials>>

(***************************************************************************)
(* Edit audit: the history sheets 'Order Shipping|Edit History' and        *)
(* 'Operation Dashboard | Edit History', and the cells 'Created Time',     *)
(* 'Last Updated Time' and 'Latest Update Record' of the edited row.  The  *)
(* timestamp, identifier and user columns of a record are not modelled.    *)
(***************************************************************************)
VARIABLES
  orderLog,     \* 'Order Shipping|Edit History': exists, rows
  dashLog,      \* 'Operation Dashboard | Edit History': exists, rows
  meta,         \* per edited sheet: the three cells of its data row
  pendingEdit   \* the edit event delivered to a handler that has not run yet

evars == <<orderLog, dashLog, meta>>

(***************************************************************************)
(* Exception handling of the handlers that write a sheet range.            *)
(***************************************************************************)
VARIABLES
  hcall         \* the handler call under way: handler, next operation, outcome

tvars == <<hcall>>

(***************************************************************************)
(* GIT progress editor: sheet 'GIT Tool | DB' (column A PI#, column G      *)
(* Finish) and the script cache entry 'gitPendingPiData'.                  *)
(***************************************************************************)
VARIABLES
  gitSheet,     \* data rows of 'GIT Tool | DB': pi, finish
  gitCache,     \* cache entry 'gitPendingPiData': set, list
  gpc,          \* position of each execution in getGitData / saveGitDetails
  glist,        \* local `sortedList` of getGitData
  awaitNext     \* history: a save has returned and no getGitData began since

gvars == <<gitSheet, gitCache, gpc, glist, awaitNext>>

(***************************************************************************)
(* Shipping management tool: what getPlanningData last returned.           *)
(***************************************************************************)
VARIABLES
  planView      \* the last getPlanningData call: the planning rows it read
                \* and the object it returned

vvars == <<planView>>

(***************************************************************************)
(* Dealer PO sheets next to 'Dealer PO | Raw Data' (poRaw).                *)
(***************************************************************************)
VARIABLES
  rawHeader,    \* row 1 of 'Dealer PO | Raw Data'
  poArchive     \* the rows of 'Dealer PO | Archive', header row included

avars == <<rawHeader, poArchive>>

(***************************************************************************)
(* saveBolData step by step: the executions of the BOL form's save that    *)
(* run at the same time on sheet 'BOL_DB' (bolDb).                         *)
(***************************************************************************)
VARIABLES
  bpc,          \* position of each execution in saveBolData
  bcall,        \* its arguments: poSkuKey, isFulfilled, bols
  bdel,         \* its local `rowsToDelete`: row numbers still to delete
  bbase         \* history: BOL_DB when the first of the executions began

bvars == <<bpc, bcall, bdel, bbase>>

xvars == <<tvars, gvars, vvars, avars, bvars>>

vars == <<qvars, cvars, pvars, svars, evars, pendingEdit, xvars>>

\* what the handlers of one group leave alone: the state of the other groups
NotQueue == UNCHANGED <<cvars, pvars, svars, evars, pendingEdit, xvars>>
NotCorr == UNCHANGED <<qvars, pvars, svars, evars, pendingEdit, xvars>>
NotPlan == UNCHANGED <<qvars, cvars, svars, evars, pendingEdit, xvars>>
NotSerial == UNCHANGED <<qvars, cvars, pvars, evars, pendingEdit, xvars>>
NotEdit == UNCHANGED <<qvars, cvars, pvars, svars, xvars>>
corevars == <<qvars, cvars, pvars, svars, evars, pendingEdit>>
NotTry == UNCHANGED <<corevars, gvars, vvars, avars, bvars>>
NotGit == UNCHANGED <<corevars, tvars, vvars, avars, bvars>>
NotView ==
  UNCHANGED <<qvars, cvars, svars, evars, pendingEdit, tvars, gvars, avars,
              bvars>>
othercvars == <<corrQueue, corrCache, ctArmed, ctFired, cpc, cjob, cexisting,
                csnap, cdone, nextJob>>
NotArchive ==
  UNCHANGED <<qvars, othercvars, pvars, svars, evars, pendingEdit, tvars,
              gvars, vvars, bvars>>

\* scriptProperties.getProperty(NEW_PO_QUEUE_KEY) parsed; null reads as '[]'
PersistedQueue == IF queueSet THEN queueVal ELSE <<>>

SeqToSet(s) == {s[i] : i \in 1..Len(s)}

\* pcs between a successful tryLock and releaseLock
LockedPcs == {"p_deltrig", "p_read", "p_delempty", "p_file", "p_write",
              "p_trigger", "p_release"}

\* pcs inside the outer try block where a service call can throw
ThrowPcs == {"p_deltrig", "p_read", "p_delempty", "p_write", "p_trigger"}

QueueInit ==
  /\ queueSet = FALSE
  /\ queueVal = <<>>
  /\ lock = 0
  /\ armed = 0
  /\ fired = 0
  /\ pc = [p \in Procs |-> "idle"]
  /\ lq = [p \in Procs |-> <<>>]
  /\ cur = [p \in Procs |-> 0]
  /\ wasEmpty = [p \in Procs |-> FALSE]
  /\ nextTask = 1
  /\ written = {}
  /\ shifted = {}
  /\ moved = {}
  /\ removed = {}

\* processNewPoUpload: saves the temp file, builds the task, calls the enqueue
processNewPoUpload(p) ==
  /\ pc[p] = "idle"
  /\ nextTask <= MaxTasks
  /\ pc' = [pc EXCEPT ![p] = "add_read"]
  /\ cur' = [cur EXCEPT ![p] = nextTask]
  /\ nextTask' = nextTask + 1
  /\ UNCHANGED <<queueSet, queueVal, lock, armed, fired, lq, wasEmpty,
                 written, shifted, moved, removed>>
  /\ NotQueue

\* addTaskToNewPoQueue_, lines 216-219: read the property
AddRead(p) ==
  /\ pc[p] = "add_read"
  /\ lq' = [lq EXCEPT ![p] = PersistedQueue]
  /\ wasEmpty' = [wasEmpty EXCEPT ![p] = (Len(PersistedQueue) = 0)]
  /\ pc' = [pc EXCEPT ![p] = "add_write"]
  /\ UNCHANGED <<queueSet, queueVal, lock, armed, fired, cur, nextTask,
                 written, shifted, moved, removed>>
  /\ NotQueue

\* addTaskToNewPoQueue_, lines 220-227: push, write back, start a run if the
\* queue was empty
AddWrite(p) ==
  /\ pc[p] = "add_write"
  /\ queueSet' = TRUE
  /\ queueVal' = Append(lq[p], cur[p])
  /\ written' = written \cup {cur[p]}
  /\ pc' = [pc EXCEPT ![p] = IF wasEmpty[p] THEN "p_lock" ELSE "idle"]
  /\ lq' = [lq EXCEPT ![p] = <<>>]
  /\ cur' = [cur EXCEPT ![p] = 0]
  /\ UNCHANGED <<lock, armed, fired, wasEmpty, nextTask, shifted, moved,
                 removed>>
  /\ NotQueue

\* a time-based trigger of the handler fires and starts an execution of
\* processNewPoUploadQueue; the one-shot trigger stays listed until deleted
FireTrigger(p) ==
  /\ pc[p] = "idle"
  /\ armed > 0
  /\ armed' = armed - 1
  /\ fired' = fired + 1
  /\ pc' = [pc EXCEPT ![p] = "p_lock"]
  /\ UNCHANGED <<queueSet, queueVal, lock, lq, cur, wasEmpty, nextTask,
                 written, shifted, moved, removed>>
  /\ NotQueue

\* mutant: tryLock grants the lock although another execution holds it
TryLockOk_NoCheck(p) ==
  /\ pc[p] = "p_lock"
  /\ lock' = p
  /\ pc' = [pc EXCEPT ![p] = "p_deltrig"]
  /\ UNCHANGED <<queueSet, queueVal, armed, fired, lq, cur, wasEmpty,
                 nextTask, written, shifted, moved, removed>>
  /\ NotQueue

\* lock.tryLock(15000) succeeds
TryLockOk(p) ==
  /\ pc[p] = "p_lock"
  /\ lock = 0
  /\ lock' = p
  /\ pc' = [pc EXCEPT ![p] = "p_deltrig"]
  /\ UNCHANGED <<queueSet, queueVal, armed, fired, lq, cur, wasEmpty,
                 nextTask, written, shifted, moved, removed>>
  /\ NotQueue

\* lock.tryLock(15000) times out while another execution holds the lock:
\* the run returns at once (lines 245-248)
TryLockFail(p) ==
  /\ pc[p] = "p_lock"
  /\ lock # 0
  /\ pc' = [pc EXCEPT ![p] = "idle"]
  /\ UNCHANGED <<queueSet, queueVal, lock, armed, fired, lq, cur, wasEmpty,
                 nextTask, written, shifted, moved, removed>>
  /\ NotQueue

\* lines 251-256: delete every trigger of the handler
DeleteTriggers(p) ==
  /\ pc[p] = "p_deltrig"
  /\ armed' = 0
  /\ fired' = 0
  /\ pc' = [pc EXCEPT ![p] = "p_read"]
  /\ UNCHANGED <<queueSet, queueVal, lock, lq, cur, wasEmpty, nextTask,
                 written, shifted, moved, removed>>
  /\ NotQueue

\* lines 258-267: read the property; empty -> go delete it; else shift
ReadQueue(p) ==
  /\ pc[p] = "p_read"
  /\ IF Len(PersistedQueue) = 0
       THEN /\ pc' = [pc EXCEPT ![p] = "p_delempty"]
            /\ UNCHANGED <<lq, cur, shifted>>
       ELSE /\ cur' = [cur EXCEPT ![p] = Head(PersistedQueue)]
            /\ lq' = [lq EXCEPT ![p] = Tail(PersistedQueue)]
            /\ shifted' = shifted \cup {Head(PersistedQueue)}
            /\ pc' = [pc EXCEPT ![p] = "p_file"]
  /\ UNCHANGED <<queueSet, queueVal, lock, armed, fired, wasEmpty, nextTask,
                 written, moved, removed>>
  /\ NotQueue

\* lines 261-264: the empty-queue return (the finally block releases)
DeleteEmpty(p) ==
  /\ pc[p] = "p_delempty"
  /\ queueSet' = FALSE
  /\ queueVal' = <<>>
  /\ pc' = [pc EXCEPT ![p] = "p_release"]
  /\ UNCHANGED <<lock, armed, fired, lq, cur, wasEmpty, nextTask, written,
                 shifted, moved, removed>>
  /\ NotQueue

\* lines 272-284: move and rename the temp file; a failure is caught and
\* logged, and the run goes on
ProcessFile(p) ==
  /\ pc[p] = "p_file"
  /\ \E ok \in BOOLEAN :
       moved' = IF ok THEN moved \cup {cur[p]} ELSE moved
  /\ pc' = [pc EXCEPT ![p] = "p_write"]
  /\ UNCHANGED <<queueSet, queueVal, lock, armed, fired, lq, cur, wasEmpty,
                 nextTask, written, shifted, removed>>
  /\ NotQueue

\* lines 287-294: write the shortened queue back, or delete the property
WriteBack(p) ==
  /\ pc[p] = "p_write"
  /\ IF Len(lq[p]) > 0
       THEN /\ queueSet' = TRUE
            /\ queueVal' = lq[p]
            /\ pc' = [pc EXCEPT ![p] = "p_trigger"]
       ELSE /\ queueSet' = FALSE
            /\ queueVal' = <<>>
            /\ pc' = [pc EXCEPT ![p] = "p_release"]
  /\ removed' = removed \cup {cur[p]}
  /\ UNCHANGED <<lock, armed, fired, lq, cur, wasEmpty, nextTask, written,
                 shifted, moved>>
  /\ NotQueue

\* manageNewPoQueueTrigger_: create a trigger unless one is listed
manageNewPoQueueTrigger_(p) ==
  /\ pc[p] = "p_trigger"
  /\ armed' = IF armed + fired = 0 THEN 1 ELSE armed
  /\ pc' = [pc EXCEPT ![p] = "p_release"]
  /\ UNCHANGED <<queueSet, queueVal, lock, fired, lq, cur, wasEmpty,
                 nextTask, written, shifted, moved, removed>>
  /\ NotQueue

\* a service call inside the outer try throws; the catch at line 296 logs it
CatchException(p) ==
  /\ pc[p] \in ThrowPcs
  /\ pc' = [pc EXCEPT ![p] = "p_release"]
  /\ UNCHANGED <<queueSet, queueVal, lock, armed, fired, lq, cur, wasEmpty,
                 nextTask, written, shifted, moved, removed>>
  /\ NotQueue

\* finally { lock.releaseLock() } and return
ReleaseLock(p) ==
  /\ pc[p] = "p_release"
  /\ lock' = IF lock = p THEN 0 ELSE lock
  /\ pc' = [pc EXCEPT ![p] = "idle"]
  /\ lq' = [lq EXCEPT ![p] = <<>>]
  /\ cur' = [cur EXCEPT ![p] = 0]
  /\ UNCHANGED <<queueSet, queueVal, armed, fired, wasEmpty, nextTask,
                 written, shifted, moved, removed>>
  /\ NotQueue

\* the steps of a started execution (everything but a new upload, a trigger
\* firing and a thrown exception)
QueueContinue(p) ==
  \/ AddRead(p)
  \/ AddWrite(p)
  \/ TryLockOk(p)
  \/ TryLockFail(p)
  \/ DeleteTriggers(p)
  \/ ReadQueue(p)
  \/ DeleteEmpty(p)
  \/ ProcessFile(p)
  \/ WriteBack(p)
  \/ manageNewPoQueueTrigger_(p)
  \/ ReleaseLock(p)

QueueNext ==
  \E p \in Procs :
    \/ processNewPoUpload(p)
    \/ FireTrigger(p)
    \/ QueueContinue(p)
    \/ CatchException(p)


(***************************************************************************)
(* PO-correction queue (src/POEditorgs.js).                                *)
(***************************************************************************)
\* PO numbers the correction tool submits
CorrPOs == {"PO1", "PO2"}

NoJob == [id |-> 0, po |-> "", newPo |-> "", items |-> 0]

\* a row of 'PO Processing Queue': A = PO number, B = status, F = the cache
\* key while queued (key > 0) and the completion message afterwards
QueueRow(po, status, key, msg) ==
  [po |-> po, status |-> status, key |-> key, msg |-> msg]

\* a row of 'Dealer PO | Raw Data' as the code writes it: D = PO number,
\* Y = status, Z and AA = change note and timestamp (note), and the
\* ARRAYFORMULA columns E, Q, W left empty (shown is what these cells
\* display)
RawRow(po, status) == [po |-> po, status |-> status, note |-> "", shown |-> ""]

CorrInit ==
  /\ corrQueue = <<>>
  /\ corrCache = {}
  /\ ctArmed = 0
  /\ ctFired = 0
  /\ poRaw = <<RawRow("PO1", "")>>
  /\ cpc = [p \in Procs |-> "idle"]
  /\ cjob = [p \in Procs |-> NoJob]
  /\ cexisting = [p \in Procs |-> FALSE]
  /\ csnap = [p \in Procs |-> <<>>]
  /\ cdone = [p \in Procs |-> FALSE]
  /\ nextJob = 1

\* savePoCorrections_AppendOnly, lines 170-187: cache the payload under a
\* fresh key and append the 'Queued' row
savePoCorrections_AppendOnly(p) ==
  /\ cpc[p] = "idle"
  /\ nextJob <= MaxJobs
  /\ \E po \in CorrPOs, newPo \in {"", "PO2"}, n \in 0..1 :
       LET job == [id |-> nextJob, po |-> po, newPo |-> newPo, items |-> n]
       IN /\ corrCache' = corrCache \cup {job}
          /\ corrQueue' = Append(corrQueue, QueueRow(po, "Queued", nextJob, ""))
          /\ cjob' = [cjob EXCEPT ![p] = job]
  /\ nextJob' = nextJob + 1
  /\ cpc' = [cpc EXCEPT ![p] = "s_check"]
  /\ UNCHANGED <<ctArmed, ctFired, poRaw, cexisting, csnap, cdone>>
  /\ NotCorr

\* _createProcessTrigger_, lines 45-46: is a trigger of the handler listed?
CheckTrigger(p) ==
  /\ cpc[p] = "s_check"
  /\ cexisting' = [cexisting EXCEPT ![p] = (ctArmed + ctFired > 0)]
  /\ cpc' = [cpc EXCEPT ![p] = "s_create"]
  /\ UNCHANGED <<corrQueue, corrCache, ctArmed, ctFired, poRaw, cjob, csnap,
                 cdone, nextJob>>
  /\ NotCorr

\* _createProcessTrigger_, lines 48-53, and the return of the submission
CreateTrigger(p) ==
  /\ cpc[p] = "s_create"
  /\ ctArmed' = IF cexisting[p] THEN ctArmed ELSE ctArmed + 1
  /\ cpc' = [cpc EXCEPT ![p] = "idle"]
  /\ cjob' = [cjob EXCEPT ![p] = NoJob]
  /\ UNCHANGED <<corrQueue, corrCache, ctFired, poRaw, cexisting, csnap,
                 cdone, nextJob>>
  /\ NotCorr

\* the time-based trigger fires and starts _processPoCorrectionTrigger
FireCorrTrigger(p) ==
  /\ cpc[p] = "idle"
  /\ ctArmed > 0
  /\ ctArmed' = ctArmed - 1
  /\ ctFired' = ctFired + 1
  /\ cpc' = [cpc EXCEPT ![p] = "c_read"]
  /\ UNCHANGED <<corrQueue, corrCache, poRaw, cjob, cexisting, csnap, cdone,
                 nextJob>>
  /\ NotCorr

\* _processPoCorrectionTrigger, lines 205-216: read the queue rows
ReadCorrQueue(p) ==
  /\ cpc[p] = "c_read"
  /\ csnap' = [csnap EXCEPT ![p] = corrQueue]
  /\ cdone' = [cdone EXCEPT ![p] = FALSE]
  /\ cpc' = [cpc EXCEPT ![p] = IF Len(corrQueue) = 0 THEN "c_deltrig"
                                 ELSE "c_process"]
  /\ UNCHANGED <<corrQueue, corrCache, ctArmed, ctFired, poRaw, cjob,
                 cexisting, nextJob>>
  /\ NotCorr

\* index of the first row of `rows` with PO number po, 0 if none
FirstRowOf(rows, po) ==
  IF \E i \in 1..Len(rows) : rows[i].po = po
    THEN CHOOSE i \in 1..Len(rows) :
           /\ rows[i].po = po
           /\ \A j \in 1..(i - 1) : rows[j].po # po
    ELSE 0

\* mutant: every row of the PO is marked, whatever its status
MarkChanged_AnyStatus(rows, po) ==
  [i \in 1..Len(rows) |->
     IF rows[i].po = po
       THEN [rows[i] EXCEPT !.status = "Change", !.note = "note"]
       ELSE rows[i]]

\* _savePoCorrectionsCore, lines 286-317: rows of the PO with an empty
\* status become 'Change', with the change note and the timestamp
MarkChanged(rows, po) ==
  [i \in 1..Len(rows) |->
     IF rows[i].po = po /\ rows[i].status = ""
       THEN [rows[i] EXCEPT !.status = "Change", !.note = "note"]
       ELSE rows[i]]

\* _savePoCorrectionsCore, lines 323-357: one new row per submitted item
NewPoRows(job) ==
  [i \in 1..job.items |->
     [RawRow(IF job.newPo # "" THEN job.newPo ELSE job.po, "")
        EXCEPT !.note = "note"]]

\* _savePoCorrectionsCore: the raw sheet after the call
CoreSheet(rows, job) ==
  IF Len(rows) = 0 \/ FirstRowOf(rows, job.po) = 0
    THEN rows
    ELSE MarkChanged(rows, job.po) \o NewPoRows(job)

\* _savePoCorrectionsCore: result.success
CoreSuccess(rows, job) ==
  /\ Len(rows) > 0
  /\ FirstRowOf(rows, job.po) # 0
  /\ job.items > 0

\* mutant: a row without payload is left as it is
ProcessedRow_Skipped(row, raw, cache) ==
  IF row.status = "Queued" /\ row.key # 0
       /\ \E j \in cache : j.id = row.key
    THEN LET job == CHOOSE j \in cache : j.id = row.key
         IN IF CoreSuccess(raw, job)
              THEN QueueRow(row.po, "Success", 0, "Successfully applied changes")
              ELSE QueueRow(row.po, "Failed", 0, "Processing failed: core")
    ELSE row

\* _processPoCorrectionTrigger, lines 218-251, for one row of the
\* snapshot: the row as written to `updates`
ProcessedRow(row, raw, cache) ==
  IF row.status = "Queued" /\ row.key # 0
    THEN IF \E j \in cache : j.id = row.key
           THEN LET job == CHOOSE j \in cache : j.id = row.key
                IN IF CoreSuccess(raw, job)
                     THEN QueueRow(row.po, "Success", 0,
                                   "Successfully applied changes")
                     ELSE QueueRow(row.po, "Failed", 0,
                                   "Processing failed: core")
           ELSE QueueRow(row.po, "Failed", 0,
                         "Processing failed: Data not found in cache.")
    ELSE row

\* the loop of lines 218-251 over rows i..Len(snap): <<updates, raw sheet,
\* cache>> after it
RECURSIVE ProcessRows(_, _, _, _)
ProcessRows(snap, i, raw, cache) ==
  IF i > Len(snap)
    THEN <<snap, raw, cache>>
    ELSE LET row == snap[i]
             hit == row.status = "Queued" /\ row.key # 0
                    /\ \E j \in cache : j.id = row.key
             job == IF hit THEN CHOOSE j \in cache : j.id = row.key ELSE NoJob
         IN ProcessRows([snap EXCEPT ![i] = ProcessedRow(row, raw, cache)],
                        i + 1,
                        IF hit THEN CoreSheet(raw, job) ELSE raw,
                        IF hit THEN cache \ {job} ELSE cache)

\* _processPoCorrectionTrigger, lines 218-251: run every 'Queued' row
ProcessCorrRows(p) ==
  /\ cpc[p] = "c_process"
  /\ LET r == ProcessRows(csnap[p], 1, poRaw, corrCache)
     IN /\ csnap' = [csnap EXCEPT ![p] = r[1]]
        /\ poRaw' = r[2]
        /\ corrCache' = r[3]
        /\ cdone' = [cdone EXCEPT ![p] =
                       \E i \in 1..Len(csnap[p]) :
                         csnap[p][i].status = "Queued" /\ csnap[p][i].key # 0]
  /\ cpc' = [cpc EXCEPT ![p] = "c_write"]
  /\ UNCHANGED <<corrQueue, ctArmed, ctFired, cjob, cexisting, nextJob>>
  /\ NotCorr

\* lines 253-256: write columns B..F of the rows that were read
WriteCorrStatus(p) ==
  /\ cpc[p] = "c_write"
  /\ corrQueue' =
       IF cdone[p]
         THEN [i \in 1..Len(corrQueue) |->
                 IF i <= Len(csnap[p])
                   THEN [csnap[p][i] EXCEPT !.po = corrQueue[i].po]
                   ELSE corrQueue[i]]
         ELSE corrQueue
  /\ cpc' = [cpc EXCEPT ![p] = "c_deltrig"]
  /\ UNCHANGED <<corrCache, ctArmed, ctFired, poRaw, cjob, cexisting, csnap,
                 cdone, nextJob>>
  /\ NotCorr

\* _deleteSelfTrigger: delete every trigger of the handler, then return
_deleteSelfTrigger(p) ==
  /\ cpc[p] = "c_deltrig"
  /\ ctArmed' = 0
  /\ ctFired' = 0
  /\ cpc' = [cpc EXCEPT ![p] = "idle"]
  /\ csnap' = [csnap EXCEPT ![p] = <<>>]
  /\ cdone' = [cdone EXCEPT ![p] = FALSE]
  /\ UNCHANGED <<corrQueue, corrCache, poRaw, cjob, cexisting, nextJob>>
  /\ NotCorr

\* a cached payload expires (TTL 3600 s) or is evicted
CacheExpire ==
  /\ \E j \in corrCache : corrCache' = corrCache \ {j}
  /\ UNCHANGED <<corrQueue, ctArmed, ctFired, poRaw, cpc, cjob, cexisting,
                 csnap, cdone, nextJob>>
  /\ NotCorr

\* the steps of a started execution
CorrContinue(p) ==
  \/ CheckTrigger(p)
  \/ CreateTrigger(p)
  \/ ReadCorrQueue(p)
  \/ ProcessCorrRows(p)
  \/ WriteCorrStatus(p)
  \/ _deleteSelfTrigger(p)

CorrNext ==
  \/ \E p \in Procs :
       \/ savePoCorrections_AppendOnly(p)
       \/ FireCorrTrigger(p)
       \/ CorrContinue(p)
  \/ CacheExpire

\* the correction tool with one execution at a time
CorrRunNext ==
  \/ savePoCorrections_AppendOnly(1)
  \/ FireCorrTrigger(1)
  \/ CorrContinue(1)
  \/ CacheExpire


(***************************************************************************)
(* Planning and BOL tools (src/[PAUSE]EditLog_onEdit.js,                   *)
(* src/BolEntryToolgs.js).                                                 *)
(***************************************************************************)
\* PO|SKU keys; 0 stands for a missing (empty) key
PlanKeys == 1..NumKeys

DigitChars == <<"0", "1", "2", "3", "4", "5", "6", "7", "8", "9">>

IsDigit(c) == \E i \in 1..10 : DigitChars[i] = c

DigitVal(c) == (CHOOSE i \in 1..10 : DigitChars[i] = c) - 1

\* value of the run of digits of s that starts at index i, continuing acc
RECURSIVE DigitsFrom(_, _, _)
DigitsFrom(s, i, acc) ==
  IF i > Len(s) \/ ~IsDigit(s[i])
    THEN acc
    ELSE DigitsFrom(s, i + 1, 10 * acc + DigitVal(s[i]))

\* parseInt(s, 10) of a string given as its characters: an optional sign and
\* the leading digits; NaN when there is no leading digit
ParseInt(s) ==
  LET signed == Len(s) > 0 /\ s[1] \in {"-", "+"}
      start == IF signed THEN 2 ELSE 1
  IN IF start > Len(s) \/ ~IsDigit(s[start])
       THEN [nan |-> TRUE, v |-> 0]
       ELSE [nan |-> FALSE,
             v |-> IF signed /\ s[1] = "-"
                     THEN 0 - DigitsFrom(s, start, 0)
                     ELSE DigitsFrom(s, start, 0)]

\* JavaScript `parseInt(x, 10) || 0`
OrZero(r) == IF r.nan THEN 0 ELSE r.v

\* new Date("yyyy-MM-dd") of day d: the instant of UTC midnight, in hours
NewDate(d) == 24 * d

\* raw strings the planning form can send: total quantity, East quantity,
\* West quantity, and the estimated ship date as a day number
RawTotal == {<<>>, <<"1">>, <<"2">>}

RawQtyE == {<<>>, <<"1">>, <<"1", "x">>}

RawQtyW == {<<>>, <<"1">>}

RawDays == {1, 2}

PlanRow(key, date, qtyE, qtyW, status) ==
  [key |-> key, date |-> date, qtyE |-> qtyE, qtyW |-> qtyW, status |-> status]

BolRow(bol, key, qty, status) ==
  [bol |-> bol, key |-> key, qty |-> qty, status |-> status]

NoSave == [saved |-> FALSE, day |-> 0, qtyE |-> <<>>, qtyW |-> <<>>]

PlanInit ==
  /\ planning = <<>>
  /\ bolDb = <<>>
  /\ bolCache = [set |-> FALSE, pending |-> {}, fulfilled |-> {}]
  /\ planSaved = [k \in PlanKeys |-> NoSave]
  /\ planLast = "none"

\* mutant: the lookup never finds the key
FindKeyRow_Never(rows, key) == 0

\* savePlanningData lines 285-305 / updateFulfillmentStatus lines 276-287:
\* index of the first row whose column C equals key (loop with break), 0 if
\* none
FindKeyRow(rows, key) ==
  IF \E i \in 1..Len(rows) : rows[i].key = key
    THEN CHOOSE i \in 1..Len(rows) :
           /\ rows[i].key = key
           /\ \A j \in 1..(i - 1) : rows[j].key # key
    ELSE 0

\* mutant: a total that is not a number passes the check
QtyMismatch_NanPasses(total, qtyE, qtyW) ==
  /\ ~ParseInt(total).nan
  /\ OrZero(ParseInt(qtyE)) + OrZero(ParseInt(qtyW)) # ParseInt(total).v

\* savePlanningData lines 267-279: qtyE + qtyW !== totalQty
QtyMismatch(total, qtyE, qtyW) ==
  \/ ParseInt(total).nan
  \/ OrZero(ParseInt(qtyE)) + OrZero(ParseInt(qtyW)) # ParseInt(total).v

\* savePlanningData lines 309-339: the sheet after the update or the append
UpsertPlanRow(rows, key, day, qtyE, qtyW) ==
  LET i == FindKeyRow(rows, key)
      e == OrZero(ParseInt(qtyE))
      w == OrZero(ParseInt(qtyW))
  IN IF i # 0
       THEN [rows EXCEPT ![i] = PlanRow(key, NewDate(day), e, w, rows[i].status)]
       ELSE Append(rows, PlanRow(key, NewDate(day), e, w, ""))

\* savePlanningData(data): one whole call
savePlanningData(key, day, total, qtyE, qtyW) ==
  /\ IF QtyMismatch(total, qtyE, qtyW)
       THEN /\ planLast' = "reject"
            /\ UNCHANGED <<planning, planSaved>>
       ELSE /\ planning' = UpsertPlanRow(planning, key, day, qtyE, qtyW)
            /\ planSaved' = [planSaved EXCEPT ![key] =
                 [saved |-> TRUE, day |-> day, qtyE |-> qtyE, qtyW |-> qtyW]]
            /\ planLast' = IF FindKeyRow(planning, key) # 0
                              THEN "update" ELSE "append"
  /\ UNCHANGED <<bolDb, bolCache>>
  /\ NotPlan

\* the BOL lines the BOL form can send: BOL number and shipped quantity
BolLine(bol, qty) == [bol |-> bol, qty |-> qty]

\* payloads of saveBolData: no line, one valid line, and two valid lines
\* mixed with a line without BOL number and a line with quantity 0
BolPayloads ==
  {<<>>,
   <<BolLine("B1", <<"1">>)>>,
   <<BolLine("B1", <<"1">>), BolLine("", <<"1">>), BolLine("B1", <<"0">>),
     BolLine("B2", <<"2">>)>>}

\* saveBolData lines 218-228: delete the rows of the key, bottom up
RECURSIVE DeleteBolRows(_, _)
DeleteBolRows(rows, key) ==
  IF rows = <<>> THEN <<>>
  ELSE IF Head(rows).key = key
         THEN DeleteBolRows(Tail(rows), key)
         ELSE <<Head(rows)>> \o DeleteBolRows(Tail(rows), key)

\* saveBolData lines 235-246: the rows built from the valid BOL lines
RECURSIVE NewBolRows(_, _, _)
NewBolRows(bols, key, status) ==
  IF bols = <<>> THEN <<>>
  ELSE LET b == Head(bols)
           q == ParseInt(b.qty)
           rest == NewBolRows(Tail(bols), key, status)
       IN IF b.bol # "" /\ ~q.nan /\ q.v > 0
            THEN <<BolRow(b.bol, key, q.v, status)>> \o rest
            ELSE rest

\* updateFulfillmentStatus: column G of the first planning row of the key
updateFulfillmentStatus(rows, key, status) ==
  LET i == FindKeyRow(rows, key)
  IN IF i = 0 THEN rows ELSE [rows EXCEPT ![i].status = status]

\* saveBolData(data): one whole call; a missing key is rejected
saveBolData(key, isFulfilled, bols) ==
  /\ IF key = 0
       THEN UNCHANGED <<planning, bolDb, bolCache>>
       ELSE LET newStatus == IF isFulfilled THEN "Fulfilled" ELSE ""
            IN /\ bolDb' = DeleteBolRows(bolDb, key)
                             \o NewBolRows(bols, key, newStatus)
               /\ planning' = updateFulfillmentStatus(planning, key, newStatus)
               /\ bolCache' = [set |-> FALSE, pending |-> {}, fulfilled |-> {}]
  /\ UNCHANGED <<planSaved, planLast>>
  /\ NotPlan

\* getInitialBolData: answer from the cache, or read the planning sheet and
\* fill the cache
getInitialBolData ==
  /\ ~bolCache.set
  /\ bolCache' =
       [set |-> TRUE,
        pending |-> {planning[i].key : i \in
                       {j \in 1..Len(planning) : planning[j].status # "Fulfilled"}},
        fulfilled |-> {planning[i].key : i \in
                       {j \in 1..Len(planning) : planning[j].status = "Fulfilled"}}]
  /\ UNCHANGED <<planning, bolDb, planSaved, planLast>>
  /\ NotPlan

\* the cache entries expire (TTL 300 s) or clearBolCache_Manual is run
clearBolCache_Manual ==
  /\ bolCache.set
  /\ bolCache' = [set |-> FALSE, pending |-> {}, fulfilled |-> {}]
  /\ UNCHANGED <<planning, bolDb, planSaved, planLast>>
  /\ NotPlan

\* the planning tool alone, with every raw quantity string
PlanNext ==
  \E key \in PlanKeys, day \in RawDays, total \in RawTotal,
     qtyE \in RawQtyE, qtyW \in RawQtyW :
    savePlanningData(key, day, total, qtyE, qtyW)

\* the planning tool saving plans for one ship date
QtyNext ==
  \E key \in PlanKeys, total \in RawTotal, qtyE \in RawQtyE, qtyW \in RawQtyW :
    savePlanningData(key, 1, total, qtyE, qtyW)

\* the planning tool and the BOL tool together
BolNext ==
  \/ \E key \in PlanKeys : savePlanningData(key, 1, <<"2">>, <<"1">>, <<"1">>)
  \/ \E key \in 0..NumKeys, isFulfilled \in BOOLEAN,
        bols \in BolPayloads :
       saveBolData(key, isFulfilled, bols)

\* the BOL tool's read path and its cache
BolCacheNext ==
  \/ getInitialBolData
  \/ clearBolCache_Manual

\* the planning tool and the BOL tool with the BOL tool's cached lists
CacheNext ==
  \/ \E key \in PlanKeys : savePlanningData(key, 1, <<"2">>, <<"1">>, <<"1">>)
  \/ \E key \in PlanKeys, isFulfilled \in BOOLEAN :
       saveBolData(key, isFulfilled, <<BolLine("B1", <<"1">>)>>)
  \/ getInitialBolData
  \/ clearBolCache_Manual

(***************************************************************************)
(* Serial assignment tool (src/SerialAssignmentToolgs.js).                 *)
(***************************************************************************)
\* serials listed in 'Serial # | Raw Data'; "SX" is a serial that is not
RawSerials == {"S1", "S2"}

COMPLETE_STATUS_TEXT == "Complete Assigned"

DbRow(serial, key, bol, complete) ==
  [serial |-> serial, key |-> key, bol |-> bol, complete |-> complete]

BolSerials(bol, serials) == [bol |-> bol, serials |-> serials]

\* the assignments objects the tool can send: BOL number -> list of serials
AssignPayloads ==
  {<<>>,
   <<BolSerials("B1", <<"S1">>)>>,
   <<BolSerials("B1", <<"S2">>)>>,
   <<BolSerials("B1", <<"S1", "S2">>)>>,
   <<BolSerials("B1", <<"S1">>), BolSerials("B2", <<"S2">>)>>,
   <<BolSerials("B1", <<"S1", "SX">>)>>}

SerialInit ==
  /\ helperKey = [s \in RawSerials |-> 0]
  /\ serialDb = <<>>
  /\ orderSerials = [k \in PlanKeys |-> <<>>]

\* Object.values(assignments).flat()
RECURSIVE FlatSerials(_)
FlatSerials(assignments) ==
  IF assignments = <<>> THEN <<>>
  ELSE Head(assignments).serials \o FlatSerials(Tail(assignments))

\* [...new Set(list)]: the first occurrence of every element, in order
RECURSIVE SetOrder(_)
SetOrder(list) ==
  IF list = <<>> THEN <<>>
  ELSE LET front == SubSeq(list, 1, Len(list) - 1)
           last == list[Len(list)]
       IN IF last \in SeqToSet(front)
            THEN SetOrder(front)
            ELSE Append(SetOrder(front), last)

\* assignSerials lines 331-342: some row of the key is marked complete
isAlreadyComplete(db, key) ==
  \E i \in 1..Len(db) :
    db[i].key = key /\ db[i].complete = COMPLETE_STATUS_TEXT

\* assignSerials lines 352-361: the serials the key holds in Serial #_DB
currentlyAssignedSerials(db, key) ==
  {db[i].serial : i \in {j \in 1..Len(db) : db[j].key = key}}

\* assignSerials lines 363-379: column H after the two loops
UpdateHelperKeys(helper, db, key, toAssign) ==
  [s \in RawSerials |->
     IF s \in toAssign THEN key
     ELSE IF s \in currentlyAssignedSerials(db, key) /\ helper[s] = key THEN 0
     ELSE helper[s]]

\* assignSerials lines 382-392: delete the rows of the key, bottom up
RECURSIVE DeleteDbRows(_, _)
DeleteDbRows(db, key) ==
  IF db = <<>> THEN <<>>
  ELSE IF Head(db).key = key
         THEN DeleteDbRows(Tail(db), key)
         ELSE <<Head(db)>> \o DeleteDbRows(Tail(db), key)

\* the rows of one BOL number
RECURSIVE RowsOfBol(_, _, _, _)
RowsOfBol(serials, key, bol, complete) ==
  IF serials = <<>> THEN <<>>
  ELSE <<DbRow(Head(serials), key, bol, complete)>>
         \o RowsOfBol(Tail(serials), key, bol, complete)

\* assignSerials lines 394-400: one row per BOL number and serial
RECURSIVE NewDbRows(_, _, _)
NewDbRows(assignments, key, complete) ==
  IF assignments = <<>> THEN <<>>
  ELSE RowsOfBol(Head(assignments).serials, key, Head(assignments).bol, complete)
         \o NewDbRows(Tail(assignments), key, complete)

\* updateOrderMgtSerials: the serial list is written to the order row of
\* the key
updateOrderMgtSerials(order, key, serials) ==
  IF key \in DOMAIN order THEN [order EXCEPT ![key] = serials] ELSE order

\* assignSerials(assignmentData): one whole call; a missing key is rejected
assignSerials(key, assignments) ==
  /\ IF key = 0
       THEN UNCHANGED <<helperKey, serialDb, orderSerials>>
       ELSE LET flat == FlatSerials(assignments)
                completeStatus == IF isAlreadyComplete(serialDb, key)
                                    THEN COMPLETE_STATUS_TEXT ELSE ""
            IN /\ helperKey' = UpdateHelperKeys(helperKey, serialDb, key,
                                                SeqToSet(flat))
               /\ serialDb' = DeleteDbRows(serialDb, key)
                                \o NewDbRows(assignments, key, completeStatus)
               /\ orderSerials' = updateOrderMgtSerials(orderSerials, key,
                                                        SetOrder(flat))
  /\ NotSerial

\* updateAssignmentCompletionStatus(poSkuKey, isComplete)
updateAssignmentCompletionStatus(key, isComplete) ==
  /\ serialDb' = [i \in 1..Len(serialDb) |->
                    IF serialDb[i].key = key
                      THEN [serialDb[i] EXCEPT !.complete =
                              IF isComplete THEN COMPLETE_STATUS_TEXT ELSE ""]
                      ELSE serialDb[i]]
  /\ UNCHANGED <<helperKey, orderSerials>>
  /\ NotSerial

SerialNext ==
  \/ \E key \in 0..NumKeys, assignments \in AssignPayloads :
       assignSerials(key, assignments)
  \/ \E key \in PlanKeys, isComplete \in BOOLEAN :
       updateAssignmentCompletionStatus(key, isComplete)

\* getPoSkuLists lines 105-123: poSkuStatusMap keeps, per key, the entry of
\* the first row unless a later row has a greater timestamp; both writers
\* stamp all rows of a key at once, so the first row's entry stays
StatusOfKey(db, key) ==
  LET rows == {i \in 1..Len(db) : db[i].key = key}
  IN IF rows = {} THEN [known |-> FALSE, isComplete |-> FALSE]
     ELSE [known |-> TRUE,
           isComplete |->
             db[CHOOSE i \in rows : \A j \in rows : i <= j].complete
               = COMPLETE_STATUS_TEXT]

\* getPoSkuLists lines 125-153: the keys of the finished list, the keys of
\* BOL_DB column B whose entry is complete
FinishedKeys(db, bols) ==
  {k \in {bols[i].key : i \in 1..Len(bols)} : StatusOfKey(db, k).isComplete}

\* the serial assignment tool, with the BOL tool that fills BOL_DB
FinishNext ==
  \/ SerialNext
  \/ \E key \in PlanKeys :
       saveBolData(key, TRUE, <<BolLine("B1", <<"1">>)>>)

(***************************************************************************)
(* Edit audit handlers (src/unnamed/part_003, src/[PAUSE]EditLog_onEdit.js)*)
(***************************************************************************)
TARGET_SHEET_NAME == "Order Shipping Mgt. Table"

DASHBOARD_SHEET_NAME == "Operation | Pending Order Dashboard"

\* the sheets an edit event can come from; only the first two have the
\* header cells 'Created Time', 'Last Updated Time', 'Latest Update Record'
EditSheets == {TARGET_SHEET_NAME, DASHBOARD_SHEET_NAME, "Other"}

MetaSheets == {TARGET_SHEET_NAME, DASHBOARD_SHEET_NAME}

HEADER_ROW == 2

START_COL == 1

END_COL == 29

COLS_TO_WATCH == {1, 2, 3, 28, 30, 32}

\* e.oldValue and e.value: undefined, a number or a string
Undefined == [t |-> "undefined"]

Num(n) == [t |-> "number", n |-> n]

Str(s) == [t |-> "string", s |-> s]

EditValues == {Undefined, Num(5), Str("5")}

\* the header row and the first data row
EditRows == {2, 3}

\* column 29 is watched by logOrderShippingEdit only, column 30 by
\* logOperationDashboardEdit only
EditCols == {29, 30}

EditEvents ==
  [sheet : EditSheets, row : EditRows, col : EditCols,
   oldValue : EditValues, value : EditValues]

\* String(v) of a one-digit number or of a string
String(v) == IF v.t = "number" THEN DigitChars[v.n + 1] ELSE v.s

\* e.oldValue !== undefined ? String(e.oldValue) : ""
StringOrEmpty(v) == IF v = Undefined THEN "" ELSE String(v)

logHeaders == [row |-> "Row", field |-> "Field", action |-> "Action",
               new |-> "New Value", old |-> "Old Value"]

LogRecord(row, col, action, new, old) ==
  [row |-> row, field |-> col, action |-> action, new |-> new, old |-> old]

NoSheet == [exists |-> FALSE, rows |-> <<>>]

NoMeta == [created |-> FALSE, updated |-> FALSE, latest |-> <<>>]

NoEdit ==
  [handler |-> "none",
   e |-> [sheet |-> "Other", row |-> 2, col |-> 29, oldValue |-> Undefined,
          value |-> Undefined]]

EditInit ==
  /\ orderLog = NoSheet
  /\ dashLog = NoSheet
  /\ meta = [sh \in MetaSheets |-> NoMeta]
  /\ pendingEdit = NoEdit

\* mutant: every record is an update
EditAction_Updated(oldValue) == "Updated"

\* const action = (oldValue === "") ? "Created" : "Updated"
EditAction(oldValue) == IF oldValue = "" THEN "Created" ELSE "Updated"

\* the three cells of the edited row, on a sheet that has the header cells
UpdateMeta(m, sheet, action, col) ==
  IF sheet \in MetaSheets
    THEN [m EXCEPT ![sheet] = [created |-> TRUE, updated |-> TRUE,
                               latest |-> <<action, col>>]]
    ELSE m

\* getSheetByName, insertSheet with the header row when missing, appendRow
AppendLog(log, record) ==
  IF log.exists
    THEN [log EXCEPT !.rows = Append(@, record)]
    ELSE [exists |-> TRUE, rows |-> <<logHeaders, record>>]

\* number of records of a history sheet
RecordCount(log) == IF log.exists THEN Len(log.rows) - 1 ELSE 0

\* a user edits a cell and the edit event is delivered to handler h
onEdit(h, e) ==
  /\ pendingEdit = NoEdit
  /\ RecordCount(IF h = "order" THEN orderLog ELSE dashLog) < MaxLog
  /\ pendingEdit' = [handler |-> h, e |-> e]
  /\ UNCHANGED evars
  /\ NotEdit

\* logOrderShippingEdit(e)
logOrderShippingEdit ==
  /\ pendingEdit.handler = "order"
  /\ pendingEdit' = NoEdit
  /\ LET e == pendingEdit.e
     IN IF \/ e.sheet # TARGET_SHEET_NAME
           \/ e.row <= HEADER_ROW
           \/ e.col < START_COL
           \/ e.col > END_COL
          THEN UNCHANGED evars
          ELSE LET oldValue == StringOrEmpty(e.oldValue)
                   newValue == StringOrEmpty(e.value)
                   action == EditAction(oldValue)
               IN IF oldValue = newValue
                    THEN UNCHANGED evars
                    ELSE /\ meta' = UpdateMeta(meta, e.sheet, action, e.col)
                         /\ orderLog' = AppendLog(orderLog,
                              LogRecord(e.row, e.col, action, newValue, oldValue))
                         /\ UNCHANGED dashLog
  /\ NotEdit

\* logOperationDashboardEdit(e): no test of the sheet name
logOperationDashboardEdit ==
  /\ pendingEdit.handler = "dashboard"
  /\ pendingEdit' = NoEdit
  /\ LET e == pendingEdit.e
     IN IF e.row <= HEADER_ROW \/ e.col \notin COLS_TO_WATCH
          THEN UNCHANGED evars
          ELSE LET oldValue == StringOrEmpty(e.oldValue)
                   newValue == StringOrEmpty(e.value)
                   action == EditAction(oldValue)
               IN IF oldValue = newValue
                    THEN UNCHANGED evars
                    ELSE /\ meta' = UpdateMeta(meta, e.sheet, action, e.col)
                         /\ dashLog' = AppendLog(dashLog,
                              LogRecord(e.row, e.col, action, newValue, oldValue))
                         /\ UNCHANGED orderLog
  /\ NotEdit

EditNext ==
  \/ \E h \in {"order", "dashboard"}, e \in EditEvents : onEdit(h, e)
  \/ logOrderShippingEdit
  \/ logOperationDashboardEdit

(***************************************************************************)
(* try/catch structure of the handlers that write a sheet range.  Every    *)
(* sheet read or write of a handler is listed by its source line, with     *)
(* whether it lies inside the handler's try block; any of them can throw.  *)
(***************************************************************************)
SheetOp(line, inTry) == [line |-> line, inTry |-> inTry]

RECURSIVE OpsAt(_, _)
OpsAt(lines, inTry) ==
  IF lines = <<>> THEN <<>>
  ELSE <<SheetOp(Head(lines), inTry)>> \o OpsAt(Tail(lines), inTry)

\* archiveProcessedPOs_Safe, src/[PAUSE]EditLog_onEdit.js: no try block
ArchiveOpLines == <<649, 658, 660, 678, 680, 682, 697, 701>>

\* the sheet reads and writes of each handler, in source order
HandlerOps ==
  [savePlanningData |-> OpsAt(<<285, 291, 331, 337>>, TRUE),
   saveBolData |-> OpsAt(<<219, 227, 249, 252>>, TRUE),
   assignSerials |-> OpsAt(<<332, 335, 345, 347, 349, 354, 355, 379, 384,
                             391, 403, 407>>, TRUE),
   updateAssignmentCompletionStatus |-> OpsAt(<<180, 185, 210>>, TRUE),
   saveGitDetails |-> OpsAt(<<234, 260>>, TRUE),
   savePoCorrections_AppendOnly |-> OpsAt(<<179, 180>>, TRUE),
   processAndSavePo |-> OpsAt(<<45, 47, 78>>, TRUE),
   voidPo |-> OpsAt(<<170, 171, 193>>, TRUE) \o OpsAt(ArchiveOpLines, TRUE),
   archiveProcessedPOs_Safe |-> OpsAt(ArchiveOpLines, FALSE),
   onEditSerial |-> OpsAt(<<462, 469, 495, 499, 528>>, FALSE)]

Handlers == DOMAIN HandlerOps

\* what the catch block of a handler does with the exception
CatchOf(h) == IF h = "voidPo" THEN "wrapped_error" ELSE "failure_result"

NoCall == [handler |-> "none", at |-> 0, outcome |-> "none"]

TryInit == hcall = NoCall

\* a handler is called
CallHandler(h) ==
  /\ hcall = NoCall
  /\ hcall' = [handler |-> h, at |-> 1, outcome |-> "running"]
  /\ NotTry

\* the next sheet operation succeeds; after the last one the handler returns
SheetOpOk ==
  /\ hcall.outcome = "running"
  /\ hcall' = IF hcall.at = Len(HandlerOps[hcall.handler])
                THEN [hcall EXCEPT !.outcome = "returned"]
                ELSE [hcall EXCEPT !.at = @ + 1]
  /\ NotTry

\* the next sheet operation throws: the catch block takes it when the
\* operation lies inside the try block, otherwise it leaves the handler
SheetOpThrows ==
  /\ hcall.outcome = "running"
  /\ hcall' = [hcall EXCEPT !.outcome =
                 IF HandlerOps[hcall.handler][hcall.at].inTry
                   THEN CatchOf(hcall.handler)
                   ELSE "unhandled"]
  /\ NotTry

\* the call is over
CallEnds ==
  /\ hcall.outcome \notin {"none", "running"}
  /\ hcall' = NoCall
  /\ NotTry

TryNext ==
  \/ \E h \in Handlers : CallHandler(h)
  \/ SheetOpOk
  \/ SheetOpThrows
  \/ CallEnds

(***************************************************************************)
(* GIT progress editor (src/onOpenCustomedTool.js).  PI numbers are        *)
(* modelled by their rank in the sort order; 0 is an empty PI# cell.       *)
(***************************************************************************)
GitRow(pi, finish) == [pi |-> pi, finish |-> finish]

\* PI numbers a save can name: 0 is a missing one, 3 is not in the sheet
GitSaveInputs == 0..3

GitInit ==
  /\ gitSheet = <<GitRow(2, FALSE), GitRow(0, FALSE), GitRow(1, FALSE)>>
  /\ gitCache = [set |-> FALSE, list |-> <<>>]
  /\ gpc = [p \in Procs |-> "idle"]
  /\ glist = [p \in Procs |-> <<>>]
  /\ awaitNext = FALSE

\* getGitData lines 136-148: the PI numbers of the rows that have one and
\* whose Finish cell is not TRUE, in sheet order
RECURSIVE PendingPiList(_)
PendingPiList(rows) ==
  IF rows = <<>> THEN <<>>
  ELSE IF Head(rows).pi # 0 /\ Head(rows).finish # TRUE
         THEN <<Head(rows).pi>> \o PendingPiList(Tail(rows))
         ELSE PendingPiList(Tail(rows))

\* getGitData line 149: pendingPiList.sort()
SortedPending(rows) == SortSeq(PendingPiList(rows), LAMBDA a, b : a < b)

\* getGitData lines 121-125: the cache is read; a hit is returned at once
GetGitCache(p) ==
  /\ gpc[p] = "idle"
  /\ awaitNext' = FALSE
  /\ IF gitCache.set
       THEN UNCHANGED <<gpc, glist>>
       ELSE /\ gpc' = [gpc EXCEPT ![p] = "g_sheet"]
            /\ UNCHANGED glist
  /\ UNCHANGED <<gitSheet, gitCache>>
  /\ NotGit

\* getGitData lines 127-149: the sheet is read and the list is built
ReadGitSheet(p) ==
  /\ gpc[p] = "g_sheet"
  /\ glist' = [glist EXCEPT ![p] = SortedPending(gitSheet)]
  /\ gpc' = [gpc EXCEPT ![p] = "g_put"]
  /\ UNCHANGED <<gitSheet, gitCache, awaitNext>>
  /\ NotGit

\* getGitData lines 152-154: the list is cached and returned
PutGitCache(p) ==
  /\ gpc[p] = "g_put"
  /\ gitCache' = [set |-> TRUE, list |-> glist[p]]
  /\ glist' = [glist EXCEPT ![p] = <<>>]
  /\ gpc' = [gpc EXCEPT ![p] = "idle"]
  /\ UNCHANGED <<gitSheet, awaitNext>>
  /\ NotGit

\* saveGitDetails lines 226-261: a missing or unknown PI# is a failure
\* result; otherwise columns B..G of the first row of the PI# are written
WriteGitRow(p, pi, isFinished) ==
  /\ gpc[p] = "idle"
  /\ IF pi = 0 \/ \A i \in 1..Len(gitSheet) : gitSheet[i].pi # pi
       THEN UNCHANGED <<gitSheet, gpc>>
       ELSE LET i == CHOOSE j \in 1..Len(gitSheet) :
                       /\ gitSheet[j].pi = pi
                       /\ \A k \in 1..(j - 1) : gitSheet[k].pi # pi
            IN /\ gitSheet' = [gitSheet EXCEPT ![i].finish = isFinished]
               /\ gpc' = [gpc EXCEPT ![p] = "s_remove"]
  /\ UNCHANGED <<gitCache, glist, awaitNext>>
  /\ NotGit

\* saveGitDetails lines 263-266: the cache entry is removed, success is
\* returned
RemoveGitCache(p) ==
  /\ gpc[p] = "s_remove"
  /\ gitCache' = [set |-> FALSE, list |-> <<>>]
  /\ gpc' = [gpc EXCEPT ![p] = "idle"]
  /\ awaitNext' = TRUE
  /\ UNCHANGED <<gitSheet, glist>>
  /\ NotGit

\* the cache entry expires (TTL 300 s)
GitCacheExpire ==
  /\ gitCache.set
  /\ gitCache' = [set |-> FALSE, list |-> <<>>]
  /\ UNCHANGED <<gitSheet, gpc, glist, awaitNext>>
  /\ NotGit

GitNext ==
  \/ \E p \in Procs : GetGitCache(p)
  \/ \E p \in Procs : ReadGitSheet(p)
  \/ \E p \in Procs : PutGitCache(p)
  \/ \E p \in Procs, pi \in GitSaveInputs, isFinished \in BOOLEAN :
       WriteGitRow(p, pi, isFinished)
  \/ \E p \in Procs : RemoveGitCache(p)
  \/ GitCacheExpire

(***************************************************************************)
(* Shipping management tool, read side (src/[PAUSE]EditLog_onEdit.js).     *)
(***************************************************************************)
\* 'Order Shipping Mgt. Table' from row 3: one row per PO|SKU key, with
\* columns K model name, L total quantity, P SKU, U key
OrderRows ==
  [k \in PlanKeys |->
     [key |-> k, sku |-> "SKU", totalQty |-> <<"2">>, modelName |-> "Model"]]

\* Utilities.formatDate(instant, Session.getScriptTimeZone(), "yyyy-MM-dd"):
\* the day number of an instant given in hours, in a zone offset hours
\* from UTC
FormatDate(instant, offset) == (instant + offset) \div 24

\* getPlanningData lines 92-133: fulfilledKeys
FulfilledKeys(rows) ==
  {rows[i].key : i \in {j \in 1..Len(rows) : rows[j].status = "Fulfilled"}}

\* getPlanningData lines 96-131: existingPlanDetails, the plan of the last
\* row of every key; the function builds it and never reads it again
ExistingPlanDetails(rows, offset) ==
  [k \in {rows[i].key : i \in 1..Len(rows)} |->
     LET i == CHOOSE j \in 1..Len(rows) :
                /\ rows[j].key = k
                /\ \A l \in (j + 1)..Len(rows) : rows[l].key # k
     IN [estShipDate |-> FormatDate(rows[i].date, offset),
         qtyE |-> rows[i].qtyE, qtyW |-> rows[i].qtyW]]

\* getPlanningData lines 153-190: itemDetails, per key of an order row with
\* a SKU
ItemDetails ==
  [k \in {OrderRows[i].key : i \in {j \in DOMAIN OrderRows : OrderRows[j].sku # ""}} |->
     [totalQty |-> OrZero(ParseInt(OrderRows[k].totalQty)),
      modelName |-> OrderRows[k].modelName]]

\* getPlanningData lines 193-221: the returned object; pendingList holds
\* the keys of the display strings
PlanningData(rows) ==
  [success |-> TRUE,
   pendingList |-> {k \in DOMAIN ItemDetails : k \notin FulfilledKeys(rows)},
   itemDetails |-> ItemDetails]

NoView == [called |-> FALSE, rows |-> <<>>, data |-> [success |-> FALSE]]

ViewInit == planView = NoView

\* getPlanningData(): one whole call
getPlanningData ==
  /\ planView' = [called |-> TRUE, rows |-> planning,
                  data |-> PlanningData(planning)]
  /\ UNCHANGED pvars
  /\ NotView

\* the planning tool with its read side, and the BOL tool marking keys
ViewNext ==
  \/ \E key \in PlanKeys : savePlanningData(key, 2, <<"2">>, <<"1">>, <<"1">>)
  \/ \E key \in PlanKeys, isFulfilled \in BOOLEAN :
       saveBolData(key, isFulfilled, <<>>)
  \/ getPlanningData

(***************************************************************************)
(* Dealer PO archive (src/[PAUSE]EditLog_onEdit.js, src/unnamed/part_002,  *)
(* src/unnamed/part_005, src/POEditorgs.js).                               *)
(***************************************************************************)
\* data rows ever written to the Dealer PO sheets in a run of the model
MaxPoRows == 3

\* row 1 of 'Dealer PO | Raw Data': the column titles
HeaderRow ==
  [po |-> "P/O", status |-> "Status", note |-> "Change Note", shown |-> "Model"]

ArchiveInit ==
  /\ rawHeader = HeaderRow
  /\ poArchive = <<>>

\* archiveProcessedPOs_Safe line 670: the statuses that are archived
IsArchiveStatus_NoRevised(status) == status \in {"Change", "Voided"}
IsArchiveStatus(status) == status \in {"Change", "Voided", "Revised"}

\* lines 664-675: dataToArchive and keptRows
ToArchive(r) == IsArchiveStatus(r.status)
ToKeep(r) == ~IsArchiveStatus(r.status)
DataToArchive(rows) == SelectSeq(rows, ToArchive)
KeptRows(rows) == SelectSeq(rows, ToKeep)

\* lines 687-694: the ARRAYFORMULA columns E, Q, W of the kept rows are
\* set to ''
ClearFormulaColumns(rows) ==
  [i \in 1..Len(rows) |-> [rows[i] EXCEPT !.shown = ""]]

\* archiveProcessedPOs_Safe: the data rows of the raw sheet and the rows of
\* the archive sheet after a run
ArchiveRun(raw, archive, header) ==
  IF Len(raw) = 0 \/ Len(DataToArchive(raw)) = 0
    THEN [raw |-> raw, archive |-> archive]
    ELSE [raw |-> ClearFormulaColumns(KeptRows(raw)),
          archive |-> (IF Len(archive) = 0 THEN <<header>> ELSE archive)
                        \o DataToArchive(raw)]

\* archiveProcessedPOs_Safe(): one whole run
archiveProcessedPOs_Safe ==
  /\ poRaw' = ArchiveRun(poRaw, poArchive, rawHeader).raw
  /\ poArchive' = ArchiveRun(poRaw, poArchive, rawHeader).archive
  /\ UNCHANGED rawHeader
  /\ NotArchive

\* data rows written so far
PoRowsWritten ==
  Len(poRaw) + (IF Len(poArchive) = 0 THEN 0 ELSE Len(poArchive) - 1)

\* processAndSavePo(poData) with one line item: one row is appended
processAndSavePo(po) ==
  /\ PoRowsWritten < MaxPoRows
  /\ poRaw' = Append(poRaw, RawRow(po, ""))
  /\ UNCHANGED avars
  /\ NotArchive

\* the spreadsheet recalculates the ARRAYFORMULAs of row 1: the empty
\* cells E, Q, W of the data rows display a value
ArrayFormulaFill ==
  /\ \E i \in 1..Len(poRaw) : poRaw[i].shown = ""
  /\ poRaw' = [i \in 1..Len(poRaw) |-> [poRaw[i] EXCEPT !.shown = "v"]]
  /\ UNCHANGED avars
  /\ NotArchive

\* the PO numbers a cell of column D or an argument can hold: the two PO
\* numbers, and one of them typed with a leading blank
PoTexts == CorrPOs \cup {" PO1"}

\* String(value).trim()
StringTrim(v) == IF v = " PO1" THEN "PO1" ELSE v

\* revisePoStatus_(poNumber): the rows of the PO that are neither 'Revised'
\* nor 'Voided' become 'Revised'
revisePoStatus_(po) ==
  /\ poRaw' = [i \in 1..Len(poRaw) |->
                 IF /\ StringTrim(poRaw[i].po) = StringTrim(po)
                    /\ poRaw[i].status \notin {"Revised", "Voided"}
                   THEN [poRaw[i] EXCEPT !.status = "Revised"]
                   ELSE poRaw[i]]
  /\ UNCHANGED avars
  /\ NotArchive

\* _savePoCorrectionsCore(poNumber, basicInfo, items): one whole call
_savePoCorrectionsCore(job) ==
  /\ PoRowsWritten + job.items <= MaxPoRows
  /\ poRaw' = CoreSheet(poRaw, job)
  /\ UNCHANGED avars
  /\ NotArchive

\* the corrections a call of the core can carry
CoreJobs ==
  {[id |-> 0, po |-> po, newPo |-> newPo, items |-> n] :
     po \in CorrPOs, newPo \in {"", "PO2"}, n \in 0..1}

\* voidPo lines 173-189: the rows whose trimmed PO number is the trimmed
\* argument get status 'Voided'
VoidedRows(rows, po) ==
  [i \in 1..Len(rows) |->
     IF StringTrim(rows[i].po) = StringTrim(po)
       THEN [rows[i] EXCEPT !.status = "Voided"]
       ELSE rows[i]]

\* mutant: the rows are marked and the archive run is left out
voidPo_NoArchive(po) ==
  /\ poRaw' = VoidedRows(poRaw, po)
  /\ UNCHANGED avars
  /\ NotArchive

\* voidPo(poNumber): the rows of the PO become 'Voided' and the archive
\* run follows; without a row of the PO the call throws
voidPo(po) ==
  /\ IF \E i \in 1..Len(poRaw) : StringTrim(poRaw[i].po) = StringTrim(po)
       THEN LET run == ArchiveRun(VoidedRows(poRaw, po), poArchive, rawHeader)
            IN /\ poRaw' = run.raw
               /\ poArchive' = run.archive
       ELSE UNCHANGED <<poRaw, poArchive>>
  /\ UNCHANGED rawHeader
  /\ NotArchive

\* getActivePoNumbers_(): the PO numbers of the rows that are not 'Voided'
getActivePoNumbers_(rows) ==
  {rows[i].po : i \in {j \in 1..Len(rows) :
                         rows[j].po # "" /\ rows[j].status # "Voided"}}

ArchiveNext ==
  \/ \E po \in CorrPOs : processAndSavePo(po)
  \/ ArrayFormulaFill
  \/ \E po \in CorrPOs : revisePoStatus_(po)
  \/ \E job \in CoreJobs : _savePoCorrectionsCore(job)
  \/ \E po \in CorrPOs : voidPo(po)
  \/ archiveProcessedPOs_Safe

\* the PO management tool: new POs, revisions and voids, with PO numbers
\* as typed
VoidNext ==
  \/ \E po \in PoTexts : processAndSavePo(po)
  \/ ArrayFormulaFill
  \/ \E po \in PoTexts : revisePoStatus_(po)
  \/ \E po \in PoTexts : voidPo(po)
  \/ archiveProcessedPOs_Safe

(***************************************************************************)
(* saveBolData as the steps it takes on the sheet. No LockService call     *)
(* surrounds them, so the steps of two executions interleave.              *)
(***************************************************************************)
NoBolCall == [key |-> 0, isFulfilled |-> FALSE, bols |-> <<>>]

BolRaceInit ==
  /\ bpc = [p \in Procs |-> "idle"]
  /\ bcall = [p \in Procs |-> NoBolCall]
  /\ bdel = [p \in Procs |-> <<>>]
  /\ bbase = [set |-> FALSE, rows |-> <<>>]

NotBolRace ==
  UNCHANGED <<qvars, cvars, svars, evars, pendingEdit, tvars, gvars, vvars,
              avars, planSaved, planLast>>

\* saveBolData lines 218-224: the row numbers, in the rows read, of the rows
\* whose column B is the key, ascending
RECURSIVE RowsToDelete(_, _, _)
RowsToDelete(rows, key, n) ==
  IF n > Len(rows) THEN <<>>
  ELSE IF rows[n].key = key
         THEN <<n>> \o RowsToDelete(rows, key, n + 1)
         ELSE RowsToDelete(rows, key, n + 1)

\* sheet.deleteRow(n): the rows below row n move up by one
DeleteRow(rows, n) ==
  SubSeq(rows, 1, n - 1) \o SubSeq(rows, n + 1, Len(rows))

BolStatus(isFulfilled) == IF isFulfilled THEN "Fulfilled" ELSE ""

\* saveBolData lines 209-224: getDataRange().getValues() and the loop that
\* collects rowsToDelete
BolReadRows(p, key, isFulfilled, bols) ==
  /\ bpc[p] = "idle"
  /\ bcall' = [bcall EXCEPT ![p] =
       [key |-> key, isFulfilled |-> isFulfilled, bols |-> bols]]
  /\ bdel' = [bdel EXCEPT ![p] = RowsToDelete(bolDb, key, 1)]
  /\ bpc' = [bpc EXCEPT ![p] =
       IF RowsToDelete(bolDb, key, 1) = <<>> THEN "append" ELSE "delete"]
  /\ bbase' = IF bbase.set THEN bbase ELSE [set |-> TRUE, rows |-> bolDb]
  /\ UNCHANGED <<planning, bolDb, bolCache>>
  /\ NotBolRace

\* saveBolData lines 225-228: one deleteRow(rowsToDelete[i]), from the last
\* row number down; a row number beyond the last data row deletes an empty
\* row of the grid
BolDeleteRow(p) ==
  /\ bpc[p] = "delete"
  /\ LET n == bdel[p][Len(bdel[p])]
     IN bolDb' = IF n <= Len(bolDb) THEN DeleteRow(bolDb, n) ELSE bolDb
  /\ bdel' = [bdel EXCEPT ![p] = SubSeq(bdel[p], 1, Len(bdel[p]) - 1)]
  /\ bpc' = [bpc EXCEPT ![p] = IF Len(bdel[p]) = 1 THEN "append" ELSE "delete"]
  /\ UNCHANGED <<planning, bolCache, bcall, bbase>>
  /\ NotBolRace

\* saveBolData lines 230-258: the new rows written below getLastRow(),
\* updateFulfillmentStatus, and the two cache entries removed
BolAppendRows(p) ==
  /\ bpc[p] = "append"
  /\ bolDb' = bolDb \o NewBolRows(bcall[p].bols, bcall[p].key,
                                  BolStatus(bcall[p].isFulfilled))
  /\ planning' = updateFulfillmentStatus(planning, bcall[p].key,
                                         BolStatus(bcall[p].isFulfilled))
  /\ bolCache' = [set |-> FALSE, pending |-> {}, fulfilled |-> {}]
  /\ bpc' = [bpc EXCEPT ![p] = "done"]
  /\ UNCHANGED <<bcall, bdel, bbase>>
  /\ NotBolRace

\* BOL_DB filled by saves that ran alone, before the executions that overlap
BolSaveAlone(key, bols) ==
  /\ \A p \in Procs : bpc[p] = "idle"
  /\ saveBolData(key, FALSE, bols)

BolRaceNext ==
  \/ \E key \in PlanKeys, bols \in BolPayloads : BolSaveAlone(key, bols)
  \/ \E p \in Procs, key \in PlanKeys, isFulfilled \in BOOLEAN,
        bols \in BolPayloads : BolReadRows(p, key, isFulfilled, bols)
  \/ \E p \in Procs : BolDeleteRow(p)
  \/ \E p \in Procs : BolAppendRows(p)

Init ==
  /\ QueueInit /\ CorrInit /\ PlanInit /\ SerialInit /\ EditInit
  /\ TryInit /\ GitInit /\ ViewInit /\ ArchiveInit /\ BolRaceInit

BolRaceSpec == Init /\ [][BolRaceNext]_vars

ViewSpec == Init /\ [][ViewNext]_vars
FinishSpec == Init /\ [][FinishNext]_vars
ArchiveSpec == Init /\ [][ArchiveNext]_vars
QtySpec == Init /\ [][QtyNext]_vars
CorrRunSpec == Init /\ [][CorrRunNext]_vars
VoidSpec == Init /\ [][VoidNext]_vars
CacheSpec == Init /\ [][CacheNext]_vars

GitSpec == Init /\ [][GitNext]_vars

TrySpec == Init /\ [][TryNext]_vars

EditSpec == Init /\ [][EditNext]_vars

SerialSpec == Init /\ [][SerialNext]_vars

PlanSpec == Init /\ [][PlanNext]_vars

BolSpec == Init /\ [][BolNext]_vars

QueueSpec == Init /\ [][QueueNext]_vars

CorrSpec == Init /\ [][CorrNext]_vars

(***************************************************************************)
(* Claims about the New-PO upload queue.                                   *)
(***************************************************************************)

\* C1: every task written into the persisted queue by addTaskToNewPoQueue_
\* is eventually taken by some run of processNewPoUploadQueue without a
\* further enqueue.  As a final result: once no execution is running and no
\* trigger is left to fire, nothing more happens by itself, so by then every
\* written task must have been taken by a run.
C1_EventuallyDequeued ==
  ((\A p \in Procs : pc[p] = "idle") /\ armed = 0) => written \subseteq shifted

\* C2: a run leaves a task out of the persisted queue only after the task's
\* file was moved and renamed; a task whose file failed stays queued.
C2_RemovedOnlyAfterMove == removed \subseteq moved

\* C3: every task pushed by an enqueue is still in the persisted queue or
\* has been handed to processing; no write or delete discards it.
C3_NoLostTask == written \subseteq (SeqToSet(PersistedQueue) \cup shifted)

\* C4: at most one run is between a successful tryLock and releaseLock, and
\* the lock is held only by a run that is still inside that section.
C4_MutualExclusion ==
  /\ \A p, q \in Procs :
       (pc[p] \in LockedPcs /\ pc[q] \in LockedPcs) => p = q
  /\ \A p \in Procs : pc[p] \in LockedPcs => lock = p
  /\ lock # 0 => pc[lock] \in LockedPcs

\* C4 witness: one run holds the lock after a caught exception or on the
\* empty-queue return while another execution is waiting in tryLock.
C4_Witness ==
  \E p, q \in Procs :
    /\ p # q
    /\ lock = p
    /\ pc[p] = "p_release"
    /\ pc[q] = "p_lock"

\* C5: when a run that acquired the lock returns, a trigger of the handler
\* exists iff the persisted queue is non-empty (an empty queue has its
\* property deleted); never more than one trigger of the handler exists.
C5_RearmedIffNonEmpty ==
  /\ armed + fired <= 1
  /\ \A p \in Procs :
       (pc[p] = "p_release" /\ lock = p) =>
         /\ (armed + fired > 0) <=> (Len(PersistedQueue) > 0)
         /\ (Len(PersistedQueue) = 0) => ~queueSet

(***************************************************************************)
(* Claims about the PO-correction queue.                                   *)
(***************************************************************************)

\* C6: every row appended to 'PO Processing Queue' with status 'Queued'
\* eventually gets status 'Success' or 'Failed' without a further
\* submission.  As a final result: once no execution is running and no
\* trigger is left to fire, no row is still 'Queued'.
C6_QueuedEventuallyDone ==
  ((\A p \in Procs : cpc[p] = "idle") /\ ctArmed = 0) =>
    \A i \in 1..Len(corrQueue) : corrQueue[i].status # "Queued"

(***************************************************************************)
(* Claims about the planning and BOL tables.                               *)
(***************************************************************************)
RowsOfKey(rows, key) == {i \in 1..Len(rows) : rows[i].key = key}

\* C7: after any sequence of successful savePlanningData calls from an
\* empty sheet, the sheet holds exactly one row per key that was saved,
\* carrying the values of the latest save of that key, and no other row.
C7_KeyUpsert ==
  \A k \in PlanKeys :
    IF planSaved[k].saved
      THEN /\ Cardinality(RowsOfKey(planning, k)) = 1
           /\ \A i \in RowsOfKey(planning, k) :
                /\ planning[i].date = NewDate(planSaved[k].day)
                /\ planning[i].qtyE = OrZero(ParseInt(planSaved[k].qtyE))
                /\ planning[i].qtyW = OrZero(ParseInt(planSaved[k].qtyW))
      ELSE RowsOfKey(planning, k) = {}

\* C7 witness: both keys have a row and the latest call overwrote the row of
\* a key that had been saved before, with a quantity parsed from "1x".
C7_Witness ==
  /\ Len(planning) = 2
  /\ planLast = "update"
  /\ \E i \in 1..Len(planning) :
       /\ planSaved[planning[i].key].qtyE = <<"1", "x">>
       /\ planning[i].qtyE = 1

\* C8: for every key with a planning row and at least one BOL_DB
\* row, the status of each of its BOL_DB rows equals the status of its
\* planning row.
C8_StatusReconciled ==
  \A k \in PlanKeys :
    \A i \in RowsOfKey(planning, k), j \in RowsOfKey(bolDb, k) :
      bolDb[j].status = planning[i].status

(***************************************************************************)
(* Claims about the serial assignment tool.                                *)
(***************************************************************************)
\* C9: for every serial listed in 'Serial # | Raw Data', its helper key
\* equals K exactly when Serial #_DB contains a row (serial, K), and is
\* empty when Serial #_DB has no row for that serial.
C9_DualWriteConsistent ==
  \A s \in RawSerials :
    /\ \A k \in PlanKeys :
         helperKey[s] = k <=>
           \E i \in 1..Len(serialDb) :
             serialDb[i].serial = s /\ serialDb[i].key = k
    /\ (\A i \in 1..Len(serialDb) : serialDb[i].serial # s) => helperKey[s] = 0

(***************************************************************************)
(* Claims about the edit audit handlers.                                   *)
(***************************************************************************)
\* the text of the cell an event value stands for
CellText(v) ==
  CASE v.t = "undefined" -> ""
    [] v.t = "number" -> IF v.n = 5 THEN "5" ELSE "?"
    [] v.t = "string" -> v.s

\* the cells the two handlers watch
WatchedByOrder(e) ==
  e.sheet = "Order Shipping Mgt. Table" /\ e.row > 2 /\ e.col \in 1..29

WatchedByDashboard(e) == e.row > 2 /\ e.col \in {1, 2, 3, 28, 30, 32}

\* the record the claim expects for event e
ExpectedRecord(e) ==
  [row |-> e.row, field |-> e.col,
   action |-> IF CellText(e.oldValue) = "" THEN "Created" ELSE "Updated",
   new |-> CellText(e.value), old |-> CellText(e.oldValue)]

\* rows already in a history sheet are neither modified nor removed
RowsKept(log, logAfter) ==
  /\ Len(logAfter.rows) >= Len(log.rows)
  /\ SubSeq(logAfter.rows, 1, Len(log.rows)) = log.rows

\* what the claim says of the handler's history sheet after event e:
\* watched says whether the handler watches the cell, before is what the
\* sheet held when the record was appended
AuditedAs(e, watched, logAfter, before) ==
  IF watched /\ CellText(e.oldValue) # CellText(e.value)
    THEN logAfter.rows = Append(before, ExpectedRecord(e))
    ELSE UNCHANGED evars

\* the step in which a handler runs on the delivered event
HandlerRuns(h) == pendingEdit.handler = h /\ pendingEdit'.handler = "none"

\* C10 as stated: a watched edit whose old and new value differ appends
\* exactly one row to the history sheet, holding the new and the old value
\* and the action; any other edit appends nothing and changes no cell; rows
\* of the history sheets are never modified or removed.
C10_OneRowAppended ==
  [][/\ HandlerRuns("order") =>
          AuditedAs(pendingEdit.e, WatchedByOrder(pendingEdit.e), orderLog',
                    orderLog.rows)
     /\ HandlerRuns("dashboard") =>
          AuditedAs(pendingEdit.e, WatchedByDashboard(pendingEdit.e), dashLog',
                    dashLog.rows)
     /\ RowsKept(orderLog, orderLog')
     /\ RowsKept(dashLog, dashLog')]_vars

\* the rows of a history sheet once it exists: the header row comes with
\* the sheet
RowsOnceCreated(log) == IF log.exists THEN log.rows ELSE <<logHeaders>>

\* C10 amended: the same, but the one row appended is the one record of
\* the event, and it follows the header row when the history sheet did not
\* exist before the event and is created by it.
C10_OneRecordAppended ==
  [][/\ HandlerRuns("order") =>
          AuditedAs(pendingEdit.e, WatchedByOrder(pendingEdit.e), orderLog',
                    RowsOnceCreated(orderLog))
     /\ HandlerRuns("dashboard") =>
          AuditedAs(pendingEdit.e, WatchedByDashboard(pendingEdit.e), dashLog',
                    RowsOnceCreated(dashLog))
     /\ RowsKept(orderLog, orderLog')
     /\ RowsKept(dashLog, dashLog')]_vars

\* C10 witness: both history sheets hold a 'Created' record followed by an
\* 'Updated' record.
C10_Witness ==
  /\ orderLog.exists /\ Len(orderLog.rows) = 3
  /\ orderLog.rows[2].action = "Created" /\ orderLog.rows[3].action = "Updated"
  /\ dashLog.exists /\ Len(dashLog.rows) = 3
  /\ dashLog.rows[2].action = "Created" /\ dashLog.rows[3].action = "Updated"

(***************************************************************************)
(* Claims about exception handling.                                        *)
(***************************************************************************)
\* C11: a failure of any sheet read or write inside one of the handlers is
\* caught within it and reported as a failure result or a wrapped error; it
\* never leaves the handler as an unhandled exception.
C11_NeverUnhandled == hcall.outcome # "unhandled"

(***************************************************************************)
(* Claims about the GIT progress editor.                                   *)
(***************************************************************************)
\* C12: after saveGitDetails has returned success, the next getGitData
\* returns exactly the sorted PI numbers of the rows whose Finish cell is not
\* TRUE as the sheet stands then: until that call begins, and while no other
\* save is between its write and its cache removal, the cache entry is
\* absent or holds exactly that list.
C12_NextListFresh ==
  (awaitNext /\ \A p \in Procs : gpc[p] # "s_remove") =>
    (gitCache.set => gitCache.list = SortedPending(gitSheet))

(***************************************************************************)
(* Claims about PO-correction jobs whose payload is gone.                  *)
(***************************************************************************)
\* row i of the snapshot of execution p is 'Queued' with a cache key
QueuedAt(p, i) == csnap[p][i].status = "Queued" /\ csnap[p][i].key # 0

\* the payload of that row can no longer be read from the cache
PayloadGone(p, i) == QueuedAt(p, i) /\ \A j \in corrCache : j.id # csnap[p][i].key

\* the raw sheet after the core ran for the rows i..Len of the snapshot
\* whose payload is readable, in row order
RECURSIVE RawAfterJobs(_, _, _)
RawAfterJobs(p, i, raw) ==
  IF i > Len(csnap[p]) THEN raw
  ELSE IF QueuedAt(p, i) /\ ~PayloadGone(p, i)
         THEN RawAfterJobs(p, i + 1,
                CoreSheet(raw, CHOOSE j \in corrCache : j.id = csnap[p][i].key))
         ELSE RawAfterJobs(p, i + 1, raw)

\* execution p runs the loop over the queue rows / writes the statuses
RunsLoop(p) == cpc[p] = "c_process" /\ cpc'[p] = "c_write"
RunsWrite(p) == cpc[p] = "c_write" /\ cpc'[p] = "c_deltrig"

\* C19: a 'Queued' row whose cache key can no longer be read gets status
\* 'Failed' and message 'Processing failed: Data not found in cache.', the
\* core is not called for it ('Dealer PO | Raw Data' changes only by the
\* core calls of the rows with a payload), the other 'Queued' rows of the
\* run are still processed, and the run writes these statuses to the sheet.
C19_MissingPayloadFails ==
  [][\A p \in Procs :
       /\ RunsLoop(p) =>
            /\ \A i \in 1..Len(csnap[p]) :
                 /\ PayloadGone(p, i) =>
                      /\ csnap'[p][i].status = "Failed"
                      /\ csnap'[p][i].msg =
                           "Processing failed: Data not found in cache."
                 /\ (QueuedAt(p, i) /\ ~PayloadGone(p, i)) =>
                      /\ csnap'[p][i].status \in {"Success", "Failed"}
                      /\ csnap'[p][i].msg #
                           "Processing failed: Data not found in cache."
                      /\ \A j \in corrCache' : j.id # csnap[p][i].key
            /\ poRaw' = RawAfterJobs(p, 1, poRaw)
       /\ RunsWrite(p) =>
            \A i \in 1..Len(csnap[p]) :
              csnap[p][i].msg = "Processing failed: Data not found in cache."
                => /\ corrQueue'[i].status = "Failed"
                   /\ corrQueue'[i].msg = csnap[p][i].msg]_vars

\* a run has failed a row without payload and applied another row
C19_Witness ==
  /\ \E i \in 1..Len(corrQueue) :
       /\ corrQueue[i].status = "Failed"
       /\ corrQueue[i].msg = "Processing failed: Data not found in cache."
  /\ \E i \in 1..Len(corrQueue) : corrQueue[i].status = "Success"

(***************************************************************************)
(* Claims about the core of the PO correction.                             *)
(***************************************************************************)
\* the call succeeds: the sheet has data rows, one of them carries the PO
\* number, and at least one item was submitted
CallSucceeds(job) ==
  /\ Len(poRaw) > 0
  /\ \E i \in 1..Len(poRaw) : poRaw[i].po = job.po
  /\ job.items > 0

\* C20: a successful _savePoCorrectionsCore call sets status 'Change' (with
\* change note and timestamp) on exactly the existing rows of poNumber
\* whose status is empty, appends exactly one new row per item, carrying
\* newPoNumber (or poNumber when none is given) and an empty status, and
\* changes no other cell: no row is deleted or reordered, and every other
\* existing row keeps all its values.
C20_AppendOnly ==
  [][\A job \in CoreJobs :
       (CallSucceeds(job) /\ _savePoCorrectionsCore(job)) =>
         /\ Len(poRaw') = Len(poRaw) + job.items
         /\ \A i \in 1..Len(poRaw) :
              poRaw'[i] =
                IF poRaw[i].po = job.po /\ poRaw[i].status = ""
                  THEN [poRaw[i] EXCEPT !.status = "Change", !.note = "note"]
                  ELSE poRaw[i]
         /\ \A i \in (Len(poRaw) + 1)..Len(poRaw') :
              /\ poRaw'[i].po = (IF job.newPo # "" THEN job.newPo ELSE job.po)
              /\ poRaw'[i].status = ""
         /\ poArchive' = poArchive
         /\ rawHeader' = rawHeader]_vars

\* a call has marked a row 'Change' and appended a row, next to a row of
\* another status
C20_Witness ==
  /\ \E i \in 1..Len(poRaw) : poRaw[i].status = "Revised"
  /\ \E i \in 1..Len(poRaw) : poRaw[i].status = "Change"
  /\ \E i \in 1..Len(poRaw) : poRaw[i].status = "" /\ poRaw[i].note = "note"

(***************************************************************************)
(* Claims about the quantity check of the planning tool.                   *)
(***************************************************************************)
\* parseInt(text, 10) as a number or NaN, and the same with NaN taken as 0
IsNumber(text) == ~ParseInt(text).nan
NumberOrZero(text) == IF IsNumber(text) THEN ParseInt(text).v ELSE 0

\* the quantity inputs that the claim says are rejected
MismatchInputs ==
  {q \in RawTotal \X RawQtyE \X RawQtyW :
     \/ ~IsNumber(q[1])
     \/ NumberOrZero(q[2]) + NumberOrZero(q[3]) # NumberOrZero(q[1])}

\* C18: a savePlanningData call whose parseInt(qtyE) + parseInt(qtyW) (each
\* taken as 0 if not a number) differs from parseInt(totalQty), or whose
\* totalQty is not a number, returns the 'Quantity mismatch' failure and
\* leaves Shipment_Planning_DB unchanged: a step that does not do so is
\* not a call with such quantities.
C18_MismatchRejected ==
  [][\/ planLast' = "reject" /\ planning' = planning
     \/ ~ \E q \in MismatchInputs, key \in PlanKeys, day \in RawDays :
            savePlanningData(key, day, q[1], q[2], q[3])]_vars

\* a call was rejected while the sheet holds a plan
C18_Witness == planLast = "reject" /\ Len(planning) > 0

(***************************************************************************)
(* Claims about the order of the New-PO queue.                             *)
(***************************************************************************)
\* the tasks a step takes out of the persisted queue
Leaving == SeqToSet(PersistedQueue) \ SeqToSet(PersistedQueue')

\* execution p performs the queue write of a run of processNewPoUploadQueue
RunWrites(p) == pc[p] \in {"p_write", "p_delempty"} /\ pc'[p] # pc[p]

\* C17: tasks leave the persisted queue in the order in which they were
\* enqueued (a task leaves only together with or after every task ahead of
\* it in the queue), and each run of processNewPoUploadQueue removes at
\* most one task.
C17_FifoOneAtATime ==
  [][/\ \A i \in 1..Len(PersistedQueue) :
          PersistedQueue[i] \in Leaving =>
            \A j \in 1..(i - 1) :
              PersistedQueue[j] \notin SeqToSet(PersistedQueue')
     /\ \A p \in Procs : RunWrites(p) => Cardinality(Leaving) <= 1]_vars

(***************************************************************************)
(* Claims about the PO-correction trigger.                                 *)
(***************************************************************************)
\* C16: at any time at most one trigger with handler
\* '_processPoCorrectionTrigger' exists (armed or fired and not yet
\* deleted), for every interleaving of savePoCorrections_AppendOnly calls
\* with each other and with _processPoCorrectionTrigger.
C16_SingleTrigger == ctArmed + ctFired <= 1

(***************************************************************************)
(* Claims about the read side of the shipping management tool.             *)
(***************************************************************************)
\* C13: for every pending key that has a row in Shipment_Planning_DB, the
\* data getPlanningData returns for that key contains the plan saved by
\* savePlanningData: the ship date as the day that was saved, qtyE and qtyW.
C13_PlanReturned ==
  planView.called =>
    \A k \in planView.data.pendingList :
      \A i \in RowsOfKey(planView.rows, k) :
        LET details == planView.data.itemDetails[k]
        IN /\ {"estShipDate", "qtyE", "qtyW"} \subseteq DOMAIN details
           /\ NewDate(details.estShipDate) = planView.rows[i].date
           /\ details.qtyE = planView.rows[i].qtyE
           /\ details.qtyW = planView.rows[i].qtyW

(***************************************************************************)
(* Claims about the serial assignment tool.                                *)
(***************************************************************************)
\* C14: assignSerials preserves 'Complete': when getPoSkuLists reports key K
\* as finished before a successful assignSerials call for K, it reports K
\* as finished after the call too, whatever the assignments argument is.
C14_CompletePreserved ==
  [][\A key \in PlanKeys, assignments \in AssignPayloads :
       (/\ key \in FinishedKeys(serialDb, bolDb)
        /\ assignSerials(key, assignments))
       => key \in FinishedKeys(serialDb', bolDb')]_vars

(***************************************************************************)
(* Claims about the Dealer PO archive.                                     *)
(***************************************************************************)
RowCount(rows, r) == Cardinality({i \in 1..Len(rows) : rows[i] = r})

Archivable(r) == r.status \in {"Change", "Voided", "Revised"}
NotArchivable(r) == r.status \notin {"Change", "Voided", "Revised"}

\* the data rows of the archive sheet, below its header row
ArchiveData(archive) == IF Len(archive) = 0 THEN <<>> ELSE Tail(archive)

\* the rows a run appended to the archive
ArchivedNow == SubSeq(ArchiveData(poArchive'), Len(ArchiveData(poArchive)) + 1,
                      Len(ArchiveData(poArchive')))

\* a kept row as the run leaves it: columns E, Q, W emptied when the run
\* archives a row
WrittenBack(r) ==
  IF \E i \in 1..Len(poRaw) : Archivable(poRaw[i])
    THEN [r EXCEPT !.shown = ""] ELSE r

\* what every run leaves alone, and where the archived rows go
ArchiveFrame ==
  /\ \A i \in 1..Len(poRaw) :
       Archivable(poRaw[i]) =>
         /\ RowCount(ArchivedNow, poRaw[i]) = RowCount(poRaw, poRaw[i])
         /\ RowCount(poRaw', poRaw[i]) = 0
  /\ Len(ArchivedNow) = Len(SelectSeq(poRaw, Archivable))
  /\ rawHeader' = rawHeader
  /\ SubSeq(ArchiveData(poArchive'), 1, Len(ArchiveData(poArchive)))
       = ArchiveData(poArchive)
  /\ (\A i \in 1..Len(poRaw) : NotArchivable(poRaw[i])) =>
       (poRaw' = poRaw /\ poArchive' = poArchive)

VoidSucceeds(po) ==
  \E i \in 1..Len(poRaw) : StringTrim(poRaw[i].po) = StringTrim(po)

\* the rows of the raw sheet with PO number po, each with status 'Voided'
VoidedOf(po) ==
  {[poRaw[i] EXCEPT !.status = "Voided"] :
     i \in {j \in 1..Len(poRaw) : poRaw[j].po = po}}

\* C21: after voidPo(p) returns success, no data row of 'Dealer PO | Raw
\* Data' has PO number p, every row that had PO number p is in 'Dealer PO |
\* Archive' with status 'Voided', and getActivePoNumbers_ no longer returns
\* p.
C21_VoidedLeavesActive ==
  [][\A po \in PoTexts :
       (VoidSucceeds(po) /\ voidPo(po)) =>
         /\ \A i \in 1..Len(poRaw') : poRaw'[i].po # po
         /\ \A r \in VoidedOf(po) :
              RowCount(ArchivedNow, r) >=
                Cardinality({i \in 1..Len(poRaw) :
                               /\ poRaw[i].po = po
                               /\ [poRaw[i] EXCEPT !.status = "Voided"] = r})
         /\ po \notin getActivePoNumbers_(poRaw')]_vars

\* a PO was voided while a row of another PO stayed: the archive holds a
\* 'Voided' row and the raw sheet a row that is still active
C21_Witness ==
  /\ \E i \in 1..Len(poArchive) : poArchive[i].status = "Voided"
  /\ Len(poRaw) >= 1
  /\ getActivePoNumbers_(poRaw) # {}

(***************************************************************************)
(* Claims about the cache of the BOL tool.                                 *)
(***************************************************************************)
\* C22: after any sequence of successful savePlanningData and saveBolData
\* calls, getInitialBolData returns the pendingList and the fulfilledList
\* it would compute from the current Shipment_Planning_DB: the lists it
\* answers from the cache, when the cache is filled, are the lists of the
\* sheet; a key just added by savePlanningData is in pendingList.
C22_CacheCoherent ==
  bolCache.set =>
    /\ bolCache.pending =
         {planning[i].key : i \in {j \in 1..Len(planning) :
                                      planning[j].status # "Fulfilled"}}
    /\ bolCache.fulfilled =
         {planning[i].key : i \in {j \in 1..Len(planning) :
                                      planning[j].status = "Fulfilled"}}

\* the rows of BOL_DB after one saveBolData call that runs alone
SaveResult(rows, call) ==
  DeleteBolRows(rows, call.key)
    \o NewBolRows(call.bols, call.key, BolStatus(call.isFulfilled))

\* the sheets that the calls of the executions in S, run one after the other
\* in some order, leave from rows
RECURSIVE SerialResults(_, _)
SerialResults(rows, S) ==
  IF S = {} THEN {rows}
  ELSE UNION {SerialResults(SaveResult(rows, bcall[p]), S \ {p}) : p \in S}

Finished == {p \in Procs : bpc[p] = "done"}

\* C23: when two saveBolData executions for different keys have both
\* returned and no other is under way, BOL_DB is what the two calls leave
\* when run one after the other in some order; and no deleteRow step of an
\* execution removes a row of another key
C23_SavesSerializable ==
  /\ [](( /\ \A p \in Procs : bpc[p] \in {"idle", "done"}
          /\ Cardinality(Finished) = 2
          /\ \A p, q \in Finished : p # q => bcall[p].key # bcall[q].key)
        => bolDb \in SerialResults(bbase.rows, Finished))
  /\ [][\A p \in Procs :
          ( /\ \A q \in Procs \ {p} : bcall[q].key # bcall[p].key
            /\ BolDeleteRow(p)
            /\ bolDb' # bolDb )
          => bolDb[bdel[p][Len(bdel[p])]].key = bcall[p].key]_vars

Next ==
  \/ BolRaceNext
  \/ QueueNext
  \/ CorrNext
  \/ PlanNext
  \/ BolNext
  \/ BolCacheNext
  \/ SerialNext
  \/ EditNext
  \/ TryNext
  \/ GitNext
  \/ ViewNext
  \/ FinishNext
  \/ ArchiveNext
  \/ VoidNext

Spec == Init /\ [][Next]_vars

====
